---- MODULE Spec2Model ----
(***************************************************************************)
(* ESP32-MutexGuard: the RAII scope guards MutexGuard and                  *)
(* RecursiveMutexGuard over FreeRTOS mutexes, and the worker tasks of the  *)
(* thread-safety tests that use them.                                      *)
(*                                                                         *)
(* A guard is the pair (m_handle, m_taken).  Its constructor blocks in the *)
(* timed take, so it is modelled in two steps: the entry (null check, ISR  *)
(* check, start of the take) and the return of the take.  unlock() and the *)
(* destructor are single steps.  Time is counted in ticks.                 *)
(***************************************************************************)
EXTENDS Integers, FiniteSets

\* ------------------------------------------------------------------ bounds
\* Number of tasks (TEST_THREADS is 4 in the tests; scaled down).
TEST_THREADS == 2
\* Iterations of a worker task's loop (500, 200, 100 in the tests; scaled).
TEST_ITERATIONS == 2
\* Guard objects that may exist at once.
NumGuards == 3
\* Largest timeout, in ticks, passed to a constructor.
MaxTimeout == 1

\* ------------------------------------------------------------------ domains
Tasks == 1..TEST_THREADS
Guards == 1..NumGuards
Null == "nullptr"
None == 0
\* The non-recursive mutex (xSemaphoreCreateMutex) and the recursive one.
PlainHandles == {"testMutex", "innerMutex"}
RecursiveHandles == {"recursiveMutex"}
Handles == PlainHandles \cup RecursiveHandles
\* The mutexes of the unit tests and the example that the guard API is
\* exercised on: one of each kind.
ApiHandles == {"testMutex", "recursiveMutex"}
pdTRUE == "pdTRUE"
pdFALSE == "pdFALSE"

VARIABLES
    guard,      \* guard[g]: the guard object in slot g
    mutex,      \* mutex[h]: holder and hold count of the FreeRTOS mutex h
    last,       \* the most recent guard operation (history)
    balance,    \* balance[h]: takes of h that returned pdTRUE in a guard's
                \* constructor, minus gives of h by guards (history)
    pc,         \* pc[t]: position of worker task t
    iter,       \* iter[t]: loop variable i of worker task t
    temp,       \* temp[t]: local copy read by task t (temp, or the register of ++)
    delay,      \* delay[t]: ticks task t still sleeps in vTaskDelay
    sharedCounter,
    threadsDone,
    currentAccess,
    maxConcurrentAccess,
    resourceAccessCount,
    entered,    \* iterations so far that found hasLock() true (history)
    skipped     \* iterations so far that found hasLock() false (history)

guardVars == <<guard, mutex, last, balance>>
taskVars == <<pc, iter, temp, delay, sharedCounter, threadsDone, entered, skipped>>
accessVars == <<currentAccess, maxConcurrentAccess, resourceAccessCount>>
vars == <<guard, mutex, last, balance, pc, iter, temp, delay, sharedCounter, threadsDone,
          currentAccess, maxConcurrentAccess, resourceAccessCount, entered, skipped>>

\* ------------------------------------------------------------------ guards
\* The task on whose stack guard slot g lives.
GuardCtx(g) == ((g - 1) % TEST_THREADS) + 1

\* A slot with no guard object in it (before construction, after destruction).
NoGuard == [life |-> "none", cls |-> "MutexGuard", m_handle |-> Null,
            m_taken |-> FALSE, ticks |-> 0]

FreeMutex == [owner |-> None, count |-> 0]

hasLock(gr) == gr.m_taken
isValid(gr) == gr.m_handle # Null
\* (variant: the conversion answers for the handle, not for the lock)
OperatorBool_IsValid(gr) == gr.m_handle # Null
OperatorBool(gr) == hasLock(gr)

\* The guard class that goes with a handle: MutexGuard takes a mutex made by
\* xSemaphoreCreateMutex, RecursiveMutexGuard a recursive one.
ClassesFor(h) ==
    IF h = Null THEN {"MutexGuard", "RecursiveMutexGuard"}
    ELSE IF h \in RecursiveHandles THEN {"RecursiveMutexGuard"}
    ELSE {"MutexGuard"}

\* ------------------------------------------------------------------ FreeRTOS
\* xSemaphoreTake on a mutex: obtainable iff nobody holds it.
\* (variant: the recursive take called on the mutex)
xSemaphoreTakeReady_Reentrant(m, t) == m.owner = None \/ m.owner = t
xSemaphoreTakeReady(m, t) == m.owner = None
\* xSemaphoreTakeRecursive: obtainable iff free or already held by the caller.
xSemaphoreTakeRecursiveReady(m, t) == m.owner = None \/ m.owner = t
TakeReady(cls, m, t) ==
    IF cls = "RecursiveMutexGuard" THEN xSemaphoreTakeRecursiveReady(m, t)
    ELSE xSemaphoreTakeReady(m, t)
\* The mutex after a successful take by task t.
Taken(m, t) == [owner |-> t, count |-> m.count + 1]
\* xSemaphoreGive: the mutex becomes available.
xSemaphoreGive(m) == FreeMutex
\* xSemaphoreGiveRecursive: one level less; available at level zero; refused
\* when the caller is not the holder.
xSemaphoreGiveRecursive(m, t) ==
    IF m.owner # t THEN m
    ELSE IF m.count > 1 THEN [owner |-> t, count |-> m.count - 1]
    ELSE FreeMutex
Given(cls, m, t) ==
    IF cls = "RecursiveMutexGuard" THEN xSemaphoreGiveRecursive(m, t)
    ELSE xSemaphoreGive(m)

\* ------------------------------------------------------------------ MutexGuard
\* Constructor up to the call of xSemaphoreTake: the guard it leaves behind.
\* life = "taking" means the constructor is inside the timed take.
\* (variant: the null check left out)
MutexGuard_ctor_NoNullCheck(handle, timeout, isr) ==
    IF isr
    THEN [life |-> "live", cls |-> "MutexGuard", m_handle |-> Null,
          m_taken |-> FALSE, ticks |-> 0]
    ELSE [life |-> "taking", cls |-> "MutexGuard", m_handle |-> handle,
          m_taken |-> FALSE, ticks |-> timeout]

\* (variant: the ISR check left out)
MutexGuard_ctor_NoIsrCheck(handle, timeout, isr) ==
    IF handle = Null
    THEN [life |-> "live", cls |-> "MutexGuard", m_handle |-> handle,
          m_taken |-> FALSE, ticks |-> 0]
    ELSE [life |-> "taking", cls |-> "MutexGuard", m_handle |-> handle,
          m_taken |-> FALSE, ticks |-> timeout]

\* (variant: portMAX_DELAY passed to the take instead of timeout)
MutexGuard_ctor_WaitsForever(handle, timeout, isr) ==
    IF handle = Null
    THEN [life |-> "live", cls |-> "MutexGuard", m_handle |-> handle,
          m_taken |-> FALSE, ticks |-> 0]
    ELSE IF isr
    THEN [life |-> "live", cls |-> "MutexGuard", m_handle |-> Null,
          m_taken |-> FALSE, ticks |-> 0]
    ELSE [life |-> "taking", cls |-> "MutexGuard", m_handle |-> handle,
          m_taken |-> FALSE, ticks |-> 0 - 1]

MutexGuard_ctor(handle, timeout, isr) ==
    IF handle = Null
    THEN [life |-> "live", cls |-> "MutexGuard", m_handle |-> handle,
          m_taken |-> FALSE, ticks |-> 0]
    ELSE IF isr
    THEN [life |-> "live", cls |-> "MutexGuard", m_handle |-> Null,
          m_taken |-> FALSE, ticks |-> 0]
    ELSE [life |-> "taking", cls |-> "MutexGuard", m_handle |-> handle,
          m_taken |-> FALSE, ticks |-> timeout]

\* The end of the constructor: m_taken = (xSemaphoreTake(...) == pdTRUE).
\* (variant: m_taken set whatever the take returned)
MutexGuard_ctor_AlwaysTaken(gr, result) ==
    [gr EXCEPT !.life = "live", !.m_taken = TRUE, !.ticks = 0]

\* (variant: the result of the take dropped)
MutexGuard_ctor_NeverTaken(gr, result) ==
    [gr EXCEPT !.life = "live", !.m_taken = FALSE, !.ticks = 0]

MutexGuard_ctor_take(gr, result) ==
    [gr EXCEPT !.life = "live", !.m_taken = (result = pdTRUE), !.ticks = 0]

\* unlock(): whether it calls xSemaphoreGive, and the guard it leaves.
\* (variant: the ISR check left out)
MutexGuard_unlock_gives_NoIsrCheck(gr, isr) ==
    gr.m_taken /\ gr.m_handle # Null

\* (variant: m_taken not consulted)
MutexGuard_unlock_gives_NoTakenCheck(gr, isr) ==
    gr.m_handle # Null /\ ~isr

MutexGuard_unlock_gives(gr, isr) ==
    gr.m_taken /\ gr.m_handle # Null /\ ~isr

\* (variant: the refusal in interrupt context clears the handle, as the
\* constructor does)
MutexGuard_unlock_IsrInvalidates(gr, isr) ==
    IF MutexGuard_unlock_gives(gr, isr)
    THEN [gr EXCEPT !.m_taken = FALSE]
    ELSE IF gr.m_taken /\ gr.m_handle # Null /\ isr
    THEN [gr EXCEPT !.m_handle = Null]
    ELSE gr

\* (variant: the held flag flipped instead of cleared, outside the test of
\* m_taken)
MutexGuard_unlock_Toggles(gr, isr) ==
    IF gr.m_handle # Null /\ ~isr
    THEN [gr EXCEPT !.m_taken = ~gr.m_taken]
    ELSE gr

MutexGuard_unlock(gr, isr) ==
    IF MutexGuard_unlock_gives(gr, isr)
    THEN [gr EXCEPT !.m_taken = FALSE]
    ELSE gr

\* ------------------------------------------------------------------ RecursiveMutexGuard
RecursiveMutexGuard_ctor(handle, timeout, isr) ==
    IF handle = Null
    THEN [life |-> "live", cls |-> "RecursiveMutexGuard", m_handle |-> handle,
          m_taken |-> FALSE, ticks |-> 0]
    ELSE IF isr
    THEN [life |-> "live", cls |-> "RecursiveMutexGuard", m_handle |-> Null,
          m_taken |-> FALSE, ticks |-> 0]
    ELSE [life |-> "taking", cls |-> "RecursiveMutexGuard", m_handle |-> handle,
          m_taken |-> FALSE, ticks |-> timeout]

\* (variant: m_taken set whatever the take returned)
RecursiveMutexGuard_ctor_AlwaysTaken(gr, result) ==
    [gr EXCEPT !.life = "live", !.m_taken = TRUE, !.ticks = 0]

RecursiveMutexGuard_ctor_take(gr, result) ==
    [gr EXCEPT !.life = "live", !.m_taken = (result = pdTRUE), !.ticks = 0]

\* (variant: m_taken not consulted)
RecursiveMutexGuard_unlock_gives_NoTakenCheck(gr, isr) ==
    gr.m_handle # Null /\ ~isr

RecursiveMutexGuard_unlock_gives(gr, isr) ==
    gr.m_taken /\ gr.m_handle # Null /\ ~isr

\* (variant: m_taken left set after the give)
RecursiveMutexGuard_unlock_KeepsTaken(gr, isr) == gr

RecursiveMutexGuard_unlock(gr, isr) ==
    IF RecursiveMutexGuard_unlock_gives(gr, isr)
    THEN [gr EXCEPT !.m_taken = FALSE]
    ELSE gr

\* ------------------------------------------------------------------ dispatch by class
Ctor(cls, handle, timeout, isr) ==
    IF cls = "RecursiveMutexGuard" THEN RecursiveMutexGuard_ctor(handle, timeout, isr)
    ELSE MutexGuard_ctor(handle, timeout, isr)
CtorTake(gr, result) ==
    IF gr.cls = "RecursiveMutexGuard" THEN RecursiveMutexGuard_ctor_take(gr, result)
    ELSE MutexGuard_ctor_take(gr, result)
UnlockGives(gr, isr) ==
    IF gr.cls = "RecursiveMutexGuard" THEN RecursiveMutexGuard_unlock_gives(gr, isr)
    ELSE MutexGuard_unlock_gives(gr, isr)
Unlocked(gr, isr) ==
    IF gr.cls = "RecursiveMutexGuard" THEN RecursiveMutexGuard_unlock(gr, isr)
    ELSE MutexGuard_unlock(gr, isr)

\* The mutexes after unlock() of guard record gr by task t.
\* (variant: the give goes to a fixed mutex, not to m_handle)
MutexAfterUnlock_WrongHandle(gr, t, isr) ==
    IF UnlockGives(gr, isr) /\ gr.m_handle \in Handles
    THEN [mutex EXCEPT !["testMutex"] = Given(gr.cls, @, t)]
    ELSE mutex

MutexAfterUnlock(gr, t, isr) ==
    IF UnlockGives(gr, isr) /\ gr.m_handle \in Handles
    THEN [mutex EXCEPT ![gr.m_handle] = Given(gr.cls, @, t)]
    ELSE mutex

\* The count of takes less gives after unlock() of guard record gr.
BalanceAfterUnlock(gr, isr) ==
    IF UnlockGives(gr, isr) /\ gr.m_handle \in Handles
    THEN [balance EXCEPT ![gr.m_handle] = @ - 1]
    ELSE balance

\* A task inside a constructor's take is blocked.
Blocked(t) == \E g \in Guards : GuardCtx(g) = t /\ guard[g].life = "taking"

\* The history record of an operation on slot g: the handle passed (ctor) or
\* bound (other operations), whether the caller was in interrupt context, and
\* whether the operation called the give primitive.
Op(op, g, h, isr, gave) ==
    [op |-> op, g |-> g, h |-> h, isr |-> isr, gave |-> gave]

\* ------------------------------------------------------------------ guard steps
\* Constructor entry for slot g, class cls, from interrupt context or from
\* the task that owns the slot.
ConstructStep(g, cls, handle, timeout, isr) ==
    /\ guard[g].life = "none"
    /\ isr \/ ~Blocked(GuardCtx(g))
    /\ guard' = [guard EXCEPT ![g] = Ctor(cls, handle, timeout, isr)]
    /\ last' = Op("ctor", g, handle, isr, FALSE)
    /\ UNCHANGED <<mutex, balance>>

\* Return of the timed take: with the mutex as soon as it is obtainable,
\* without it once the timeout has run out.
TakeReturnStep(g) ==
    /\ guard[g].life = "taking"
    /\ LET gr == guard[g]
           h == gr.m_handle
           t == GuardCtx(g)
           ready == h \in Handles /\ TakeReady(gr.cls, mutex[h], t)
       IN
        /\ ready \/ gr.ticks = 0
        /\ guard' = [guard EXCEPT ![g] = CtorTake(gr, IF ready THEN pdTRUE ELSE pdFALSE)]
        /\ mutex' = IF ready THEN [mutex EXCEPT ![h] = Taken(@, t)] ELSE mutex
        /\ balance' = IF ready THEN [balance EXCEPT ![h] = @ + 1] ELSE balance
        /\ last' = Op("take", g, h, FALSE, FALSE)

\* unlock() on a constructed guard, from its task or from an interrupt handler.
UnlockStep(g, isr) ==
    /\ guard[g].life = "live"
    /\ isr \/ ~Blocked(GuardCtx(g))
    /\ LET gr == guard[g] IN
        /\ guard' = [guard EXCEPT ![g] = Unlocked(gr, isr)]
        /\ mutex' = MutexAfterUnlock(gr, GuardCtx(g), isr)
        /\ balance' = BalanceAfterUnlock(gr, isr)
        /\ last' = Op("unlock", g, gr.m_handle, isr, UnlockGives(gr, isr))

\* The destructor: unlock(), and the object is gone.  A guard is owned by one
\* stack frame, so it is destroyed in the context that constructed it: a guard
\* with a handle was constructed by a task (an interrupt handler's guard has
\* its handle cleared), and is destroyed by that task.
DestroyStep(g, isr) ==
    /\ guard[g].life = "live"
    /\ isr => guard[g].m_handle = Null
    /\ isr \/ ~Blocked(GuardCtx(g))
    /\ LET gr == guard[g] IN
        /\ guard' = [guard EXCEPT ![g] = NoGuard]
        /\ mutex' = MutexAfterUnlock(gr, GuardCtx(g), isr)
        /\ balance' = BalanceAfterUnlock(gr, isr)
        /\ last' = Op("dtor", g, gr.m_handle, isr, UnlockGives(gr, isr))

\* One tick of the RTOS clock: running timeouts and sleeps get shorter.
TickStep ==
    /\ \/ \E g \in Guards : guard[g].life = "taking" /\ guard[g].ticks > 0
       \/ \E t \in Tasks : delay[t] > 0
    /\ guard' = [g \in Guards |->
                    IF guard[g].life = "taking" /\ guard[g].ticks > 0
                    THEN [guard[g] EXCEPT !.ticks = @ - 1] ELSE guard[g]]
    /\ delay' = [t \in Tasks |-> IF delay[t] > 0 THEN delay[t] - 1 ELSE 0]
    /\ last' = Op("tick", 0, Null, FALSE, FALSE)
    /\ UNCHANGED <<mutex, balance>>

\* ------------------------------------------------------------------ Spec: the guard API
InitGuards ==
    /\ guard = [g \in Guards |-> NoGuard]
    /\ mutex = [h \in Handles |-> FreeMutex]
    /\ last = Op("init", 0, Null, FALSE, FALSE)
    /\ balance = [h \in Handles |-> 0]

InitTasks ==
    /\ pc = [t \in Tasks |-> "loop"]
    /\ iter = [t \in Tasks |-> 0]
    /\ temp = [t \in Tasks |-> 0]
    /\ delay = [t \in Tasks |-> 0]
    /\ sharedCounter = 0
    /\ threadsDone = 0
    /\ currentAccess = 0
    /\ maxConcurrentAccess = 0
    /\ resourceAccessCount = 0
    /\ entered = 0
    /\ skipped = 0

Init == InitGuards /\ InitTasks

Construct ==
    \E g \in Guards, h \in ApiHandles \cup {Null}, timeout \in 0..MaxTimeout, isr \in BOOLEAN :
        \E cls \in ClassesFor(h) :
            /\ ConstructStep(g, cls, h, timeout, isr)
            /\ UNCHANGED <<taskVars, accessVars>>

TakeReturn ==
    \E g \in Guards : TakeReturnStep(g) /\ UNCHANGED <<taskVars, accessVars>>

Unlock ==
    \E g \in Guards, isr \in BOOLEAN :
        UnlockStep(g, isr) /\ UNCHANGED <<taskVars, accessVars>>

Destroy ==
    \E g \in Guards, isr \in BOOLEAN :
        DestroyStep(g, isr) /\ UNCHANGED <<taskVars, accessVars>>

Tick ==
    TickStep /\ UNCHANGED <<pc, iter, temp, sharedCounter, threadsDone, entered, skipped, accessVars>>

Next == Construct \/ TakeReturn \/ Unlock \/ Destroy \/ Tick

Spec == Init /\ [][Next]_vars

\* ------------------------------------------------------------------ worker tasks
\* The worker tasks of the thread-safety tests, from the first iteration of
\* their loop on.  Task t keeps its guard in slot t.  A task runs in task
\* context, so xPortInIsrContext() is false in its constructor and destructor.
\* The statements between two suspension points are one step.  The wait on
\* startSemaphore before the loop is left out: the tasks are taken as running.
AllDone == \A t \in Tasks : pc[t] = "done"

\* for (...) { MutexGuard guard(testMutex, timeout);  -- up to the take
TaskConstruct(t) ==
    /\ pc[t] = "loop"
    /\ iter[t] < TEST_ITERATIONS
    /\ ConstructStep(t, "MutexGuard", "testMutex", MaxTimeout, FALSE)
    /\ pc' = [pc EXCEPT ![t] = "take"]
    /\ UNCHANGED <<iter, temp, delay, sharedCounter, threadsDone, entered, skipped,
                   accessVars>>

\* the take returns and the constructor ends
TaskTake(t) ==
    /\ pc[t] = "take"
    /\ TakeReturnStep(t)
    /\ pc' = [pc EXCEPT ![t] = "check"]
    /\ UNCHANGED <<iter, temp, delay, sharedCounter, threadsDone, entered, skipped,
                   accessVars>>

\* if (guard.hasLock()) is false: the body is skipped
TaskSkip(t) ==
    /\ pc[t] = "check"
    /\ ~hasLock(guard[t])
    /\ pc' = [pc EXCEPT ![t] = "dtor"]
    /\ skipped' = skipped + 1
    /\ UNCHANGED <<guardVars, iter, temp, delay, sharedCounter, threadsDone, entered,
                   accessVars>>

\* } end of the iteration: ~MutexGuard(), i++
TaskDestroy(t) ==
    /\ pc[t] = "dtor"
    /\ DestroyStep(t, FALSE)
    /\ pc' = [pc EXCEPT ![t] = "loop"]
    /\ iter' = [iter EXCEPT ![t] = @ + 1]
    /\ UNCHANGED <<temp, delay, sharedCounter, threadsDone, entered, skipped, accessVars>>

\* threadsDone++ after the loop: the read ...
TaskExitRead(t) ==
    /\ pc[t] = "loop"
    /\ iter[t] >= TEST_ITERATIONS
    /\ temp' = [temp EXCEPT ![t] = threadsDone]
    /\ pc' = [pc EXCEPT ![t] = "exit"]
    /\ UNCHANGED <<guardVars, iter, delay, sharedCounter, threadsDone, entered, skipped,
                   accessVars>>

\* ... and the write; vTaskDelete(NULL)
TaskExitWrite(t) ==
    /\ pc[t] = "exit"
    /\ threadsDone' = temp[t] + 1
    /\ pc' = [pc EXCEPT ![t] = "done"]
    /\ UNCHANGED <<guardVars, iter, temp, delay, sharedCounter, entered, skipped,
                   accessVars>>

\* incrementTask: int temp = sharedCounter; vTaskDelay(1);
IncRead(t) ==
    /\ pc[t] = "check"
    /\ hasLock(guard[t])
    /\ temp' = [temp EXCEPT ![t] = sharedCounter]
    /\ delay' = [delay EXCEPT ![t] = 1]
    /\ entered' = entered + 1
    /\ pc' = [pc EXCEPT ![t] = "critical"]
    /\ UNCHANGED <<guardVars, iter, sharedCounter, threadsDone, skipped, accessVars>>

\* incrementTask: sharedCounter = temp + 1;
IncWrite(t) ==
    /\ pc[t] = "critical"
    /\ delay[t] = 0
    /\ sharedCounter' = temp[t] + 1
    /\ pc' = [pc EXCEPT ![t] = "dtor"]
    /\ UNCHANGED <<guardVars, iter, temp, delay, threadsDone, entered, skipped, accessVars>>

\* resourceAccessTask: currentAccess++; if (currentAccess > maxConcurrentAccess)
\* maxConcurrentAccess = currentAccess; vTaskDelay(1);
AccessEnter(t) ==
    /\ pc[t] = "check"
    /\ hasLock(guard[t])
    /\ currentAccess' = currentAccess + 1
    /\ maxConcurrentAccess' =
         IF currentAccess + 1 > maxConcurrentAccess THEN currentAccess + 1
         ELSE maxConcurrentAccess
    /\ delay' = [delay EXCEPT ![t] = 1]
    /\ entered' = entered + 1
    /\ pc' = [pc EXCEPT ![t] = "critical"]
    /\ UNCHANGED <<guardVars, iter, temp, sharedCounter, threadsDone, skipped,
                   resourceAccessCount>>

\* resourceAccessTask: resourceAccessCount++; currentAccess--;
AccessLeave(t) ==
    /\ pc[t] = "critical"
    /\ delay[t] = 0
    /\ resourceAccessCount' = resourceAccessCount + 1
    /\ currentAccess' = currentAccess - 1
    /\ pc' = [pc EXCEPT ![t] = "dtor"]
    /\ UNCHANGED <<guardVars, iter, temp, delay, sharedCounter, threadsDone, entered,
                   skipped, maxConcurrentAccess>>

\* ------------------------------------------------------------------ SpecIncrement
\* test_concurrent_increment: TEST_THREADS tasks run incrementTask.
NextIncrement ==
    \/ \E t \in Tasks :
        \/ TaskConstruct(t) \/ TaskTake(t) \/ IncRead(t) \/ IncWrite(t)
        \/ TaskSkip(t) \/ TaskDestroy(t) \/ TaskExitRead(t) \/ TaskExitWrite(t)
    \/ Tick

SpecIncrement == Init /\ [][NextIncrement]_vars

\* ------------------------------------------------------------------ SpecAccess
\* test_mutual_exclusion: TEST_THREADS tasks run resourceAccessTask.
NextAccess ==
    \/ \E t \in Tasks :
        \/ TaskConstruct(t) \/ TaskTake(t) \/ AccessEnter(t) \/ AccessLeave(t)
        \/ TaskSkip(t) \/ TaskDestroy(t) \/ TaskExitRead(t) \/ TaskExitWrite(t)
    \/ Tick

SpecAccess == Init /\ [][NextAccess]_vars

\* ------------------------------------------------------------------ claims over the tasks
\* C1: in every reachable state of test_mutual_exclusion at most one task is
\* inside the critical section, and the instrumented counters never exceed 1.
C1_MutualExclusion ==
    /\ Cardinality({t \in Tasks : pc[t] = "critical"}) <= 1
    /\ currentAccess <= 1
    /\ maxConcurrentAccess <= 1

\* One task is inside the critical section while another one is inside the
\* take of its constructor.
C1_Witness ==
    \E t, u \in Tasks :
        /\ t # u
        /\ pc[t] = "critical"
        /\ pc[u] = "take"
        /\ currentAccess = 1

C3_GuaranteedRelease ==
    [][ (/\ last'.op \in {"unlock", "dtor"}
         /\ guard[last'.g].cls = "MutexGuard"
         /\ hasLock(guard[last'.g]))
        => (/\ mutex'[guard[last'.g].m_handle] = FreeMutex
            /\ ~hasLock(guard'[last'.g])) ]_vars

\* C4: on a MutexGuard that holds the lock the first unlock() releases the
\* mutex and sets hasLock() to false; an unlock() (explicit or the
\* destructor's) on a guard that does not hold it releases nothing and
\* changes neither the guard nor the mutex.
C4_UnlockIdempotent ==
    [][ (last'.op \in {"unlock", "dtor"} /\ guard[last'.g].cls = "MutexGuard")
        => IF hasLock(guard[last'.g])
           THEN /\ last'.gave
                /\ mutex'[guard[last'.g].m_handle] = FreeMutex
                /\ ~hasLock(guard'[last'.g])
           ELSE /\ ~last'.gave
                /\ mutex' = mutex
                /\ last'.op = "unlock" => guard'[last'.g] = guard[last'.g] ]_vars

\* C5: a MutexGuard constructor whose take returns while another context
\* holds the mutex ends with hasLock() false and isValid() true and leaves the
\* mutex with its holder; unlock() or destruction of a valid guard without the
\* lock releases nothing.
C5_TimeoutIsNormal ==
    [][ /\ (/\ last'.op = "take"
            /\ guard[last'.g].cls = "MutexGuard"
            /\ mutex[guard[last'.g].m_handle].owner \notin {None, GuardCtx(last'.g)})
           => (/\ guard'[last'.g].life = "live"
               /\ ~hasLock(guard'[last'.g])
               /\ isValid(guard'[last'.g])
               /\ mutex' = mutex)
        /\ (/\ last'.op \in {"unlock", "dtor"}
            /\ guard[last'.g].cls = "MutexGuard"
            /\ isValid(guard[last'.g])
            /\ ~hasLock(guard[last'.g]))
           => (~last'.gave /\ mutex' = mutex) ]_vars

\* A timed-out MutexGuard: its take has just returned without the lock while
\* the other task holds the mutex.
C5_Witness ==
    /\ last.op = "take"
    /\ guard[last.g].cls = "MutexGuard"
    /\ guard[last.g].life = "live"
    /\ ~hasLock(guard[last.g])
    /\ isValid(guard[last.g])
    /\ mutex[guard[last.g].m_handle].owner \notin {None, GuardCtx(last.g)}

\* C6: a constructor called in task context with a valid handle attempts the
\* take; a take that returns while the mutex is free ends with hasLock() and
\* isValid() true and the mutex owned by the constructing task; a take returns
\* without the lock only when the mutex is held and the timeout has run out.
C6_Acquires ==
    [][ /\ (last'.op = "ctor" /\ last'.h # Null /\ ~last'.isr)
           => (/\ guard'[last'.g].life = "taking"
               /\ guard'[last'.g].m_handle = last'.h)
        /\ (last'.op = "take" /\ mutex[guard[last'.g].m_handle].owner = None)
           => (/\ guard'[last'.g].life = "live"
               /\ hasLock(guard'[last'.g])
               /\ isValid(guard'[last'.g])
               /\ mutex'[guard[last'.g].m_handle].owner = GuardCtx(last'.g))
        /\ (last'.op = "take" /\ ~hasLock(guard'[last'.g]))
           => (/\ mutex[guard[last'.g].m_handle].owner # None
               /\ guard[last'.g].ticks = 0) ]_vars

\* A constructor has just returned with the lock.
C6_Witness ==
    /\ last.op = "take"
    /\ guard[last.g].life = "live"
    /\ hasLock(guard[last.g])
    /\ isValid(guard[last.g])
    /\ mutex[guard[last.g].m_handle].owner = GuardCtx(last.g)

\* C7: a constructor given a null handle attempts no take and leaves the guard
\* with hasLock() and isValid() false; unlock() or destruction of a guard
\* without a handle releases nothing and changes no mutex.
C7_NullHandle ==
    [][ /\ (last'.op = "ctor" /\ last'.h = Null)
           => (/\ guard'[last'.g].life = "live"
               /\ ~hasLock(guard'[last'.g])
               /\ ~isValid(guard'[last'.g])
               /\ mutex' = mutex)
        /\ (last'.op \in {"unlock", "dtor"} /\ ~isValid(guard[last'.g]))
           => (/\ ~last'.gave
               /\ mutex' = mutex
               /\ last'.op = "unlock" => guard'[last'.g] = guard[last'.g]) ]_vars

\* A guard has just been constructed with a null handle while a mutex is held.
C7_Witness ==
    /\ last.op = "ctor"
    /\ last.h = Null
    /\ guard[last.g].life = "live"
    /\ \E h \in Handles : mutex[h].owner # None

\* C8: a constructor given a handle in interrupt context attempts no take,
\* clears the handle and leaves hasLock() false and the mutexes unchanged; no
\* later unlock() or destruction of a guard whose handle is cleared releases.
C8_IsrConstruct ==
    [][ /\ (last'.op = "ctor" /\ last'.h # Null /\ last'.isr)
           => (/\ guard'[last'.g].life = "live"
               /\ ~isValid(guard'[last'.g])
               /\ ~hasLock(guard'[last'.g])
               /\ mutex' = mutex)
        /\ (last'.op \in {"unlock", "dtor"} /\ guard[last'.g].m_handle = Null)
           => (~last'.gave /\ mutex' = mutex) ]_vars

\* A guard has just been constructed over a held mutex from interrupt context.
C8_Witness ==
    /\ last.op = "ctor"
    /\ last.isr
    /\ last.h # Null
    /\ guard[last.g].life = "live"
    /\ mutex[last.h].owner # None

\* C9: after a construction or an unlock() attempted from interrupt context
\* nothing was released and the guard is unlocked (hasLock() is false).
C9_IsrLeavesUnlocked ==
    (last.op \in {"ctor", "unlock"} /\ last.isr)
    => (~last.gave /\ guard[last.g].life = "live" /\ ~hasLock(guard[last.g]))

Holders(h) == {g \in Guards : hasLock(guard[g]) /\ guard[g].m_handle = h}

\* C11: a RecursiveMutexGuard whose take returns while its own task already
\* owns the recursive mutex gets the lock at once, whatever is left of the
\* timeout; and while a guard of one task holds the recursive mutex, no guard
\* of another task holds it.
C11_RecursiveNesting ==
    [][ /\ (/\ last'.op = "take"
            /\ guard[last'.g].cls = "RecursiveMutexGuard"
            /\ mutex[guard[last'.g].m_handle].owner = GuardCtx(last'.g))
           => (/\ hasLock(guard'[last'.g])
               /\ mutex'[guard[last'.g].m_handle].owner = GuardCtx(last'.g)
               /\ mutex'[guard[last'.g].m_handle].count
                    = mutex[guard[last'.g].m_handle].count + 1)
        /\ \A h \in RecursiveHandles : \A g1, g2 \in Guards :
              (/\ hasLock(guard'[g1]) /\ guard'[g1].m_handle = h
               /\ hasLock(guard'[g2]) /\ guard'[g2].m_handle = h)
              => GuardCtx(g1) = GuardCtx(g2) ]_vars

\* Two nested guards of one task hold the recursive mutex, and the guard of
\* another task over it has returned from its constructor without the lock.
C11_Witness ==
    \E g1, g2, g3 \in Guards :
        /\ g1 # g2
        /\ GuardCtx(g1) = GuardCtx(g2)
        /\ GuardCtx(g3) # GuardCtx(g1)
        /\ {g1, g2} \subseteq Holders("recursiveMutex")
        /\ mutex["recursiveMutex"].count = 2
        /\ guard[g3].life = "live"
        /\ guard[g3].m_handle = "recursiveMutex"
        /\ ~hasLock(guard[g3])

\* C12: a RecursiveMutexGuard calls xSemaphoreGiveRecursive only while it
\* holds the lock, the call takes exactly one level off the hold count and
\* ends the guard's hold, and a guard destroyed while holding makes the call;
\* the hold count never goes below zero, and once no guard holds the
\* recursive mutex any more the count is zero and the mutex is free.
C12_RecursiveBalance ==
    [][ /\ (/\ last'.op \in {"unlock", "dtor"}
            /\ guard[last'.g].cls = "RecursiveMutexGuard")
           => /\ last'.gave
                 => (/\ hasLock(guard[last'.g])
                     /\ ~hasLock(guard'[last'.g])
                     /\ mutex'[guard[last'.g].m_handle].count
                          = mutex[guard[last'.g].m_handle].count - 1)
              /\ (last'.op = "dtor" /\ hasLock(guard[last'.g])) => last'.gave
        /\ \A h \in RecursiveHandles :
              /\ mutex'[h].count >= 0
              /\ (\A g \in Guards :
                     ~(hasLock(guard'[g]) /\ guard'[g].m_handle = h))
                 => mutex'[h] = FreeMutex ]_vars

\* One of two nested guards has just released: one level is left, held by
\* the other guard of the same task.
C12_Witness ==
    /\ last.op \in {"unlock", "dtor"}
    /\ last.gave
    /\ last.h = "recursiveMutex"
    /\ mutex["recursiveMutex"] = [owner |-> GuardCtx(last.g), count |-> 1]
    /\ \E g \in Holders("recursiveMutex") :
          g # last.g /\ GuardCtx(g) = GuardCtx(last.g)

\* ------------------------------------------------------------------ SpecDeadlock
\* test_no_deadlock: TEST_THREADS tasks run deadlockTestTask on one mutex.
\* deadlockTestTask: if (guard.hasLock()) vTaskDelay(pdMS_TO_TICKS(1));
DeadlockHold(t) ==
    /\ pc[t] = "check"
    /\ hasLock(guard[t])
    /\ delay' = [delay EXCEPT ![t] = 1]
    /\ entered' = entered + 1
    /\ pc' = [pc EXCEPT ![t] = "critical"]
    /\ UNCHANGED <<guardVars, iter, temp, sharedCounter, threadsDone, skipped, accessVars>>

\* the delay is over: the end of the if body
DeadlockResume(t) ==
    /\ pc[t] = "critical"
    /\ delay[t] = 0
    /\ pc' = [pc EXCEPT ![t] = "dtor"]
    /\ UNCHANGED <<guardVars, iter, temp, delay, sharedCounter, threadsDone, entered,
                   skipped, accessVars>>

\* The steps of task t running deadlockTestTask.
DeadlockTask(t) ==
    \/ TaskConstruct(t) \/ TaskTake(t) \/ DeadlockHold(t) \/ DeadlockResume(t)
    \/ TaskSkip(t) \/ TaskDestroy(t) \/ TaskExitRead(t) \/ TaskExitWrite(t)

NextDeadlock ==
    \/ \E t \in Tasks : DeadlockTask(t)
    \/ Tick

\* The tasks have equal priority and are time-sliced, so a task that can run
\* does run; the tick interrupt keeps counting.
SpecDeadlock ==
    /\ Init
    /\ [][NextDeadlock]_vars
    /\ WF_vars(Tick)
    /\ \A t \in Tasks : WF_vars(DeadlockTask(t))

\* C13: in test_no_deadlock every constructor's take is a wait of at most the
\* timeout, every task inside a constructor gets out of it (with the lock or
\* without), and every task finishes its loop and stays finished.
C13_NoDeadlock ==
    /\ [](\A t \in Tasks :
            pc[t] = "take" => guard[t].ticks \in 0..MaxTimeout)
    /\ \A t \in Tasks : (pc[t] = "take") ~> (pc[t] = "check")
    /\ <>[]AllDone

\* All tasks have finished, after iterations that got the lock and
\* iterations whose constructor timed out.
C13_Witness ==
    /\ AllDone
    /\ entered > 0
    /\ skipped > 0
    /\ \A t \in Tasks : iter[t] = TEST_ITERATIONS

\* ------------------------------------------------------------------ SpecQueries
\* hasLock(), isValid() and operator bool() are const: a call on a constructed
\* guard returns a value and assigns nothing.
QueryStep(g) ==
    /\ guard[g].life = "live"
    /\ last' = Op("query", g, guard[g].m_handle, FALSE, FALSE)
    /\ UNCHANGED <<guard, mutex, balance>>

Query ==
    \E g \in Guards : QueryStep(g) /\ UNCHANGED <<taskVars, accessVars>>

NextQueries == Next \/ Query

SpecQueries == Init /\ [][NextQueries]_vars

\* C14: a call of hasLock(), isValid() or operator bool() leaves the guard and
\* every mutex as they were; hasLock() returns the held flag, isValid() returns
\* whether the handle is non-null, and the bool conversion returns what
\* hasLock() returns.
C14_QueriesPure ==
    [][ last'.op = "query"
        => /\ guard' = guard
           /\ mutex' = mutex
           /\ hasLock(guard'[last'.g]) = guard[last'.g].m_taken
           /\ isValid(guard'[last'.g]) = (guard[last'.g].m_handle # Null)
           /\ OperatorBool(guard'[last'.g]) = hasLock(guard'[last'.g]) ]_vars

\* A query on a guard whose constructor timed out: the handle is valid, the
\* lock is not held, and the bool conversion is false.
C14_Witness ==
    /\ last.op = "query"
    /\ isValid(guard[last.g])
    /\ ~hasLock(guard[last.g])
    /\ ~OperatorBool(guard[last.g])

\* ------------------------------------------------------------------ claims over the guard API, continued
\* C15: a guard whose held flag is true is bound to a mutex that is owned by
\* the task that constructed the guard, and over a non-recursive mutex at most
\* one guard has its held flag true.
C15_Ownership ==
    /\ \A g \in Guards :
          hasLock(guard[g])
          => /\ guard[g].m_handle \in Handles
             /\ mutex[guard[g].m_handle].owner = GuardCtx(g)
             /\ mutex[guard[g].m_handle].count >= 1
    /\ \A h \in PlainHandles : Cardinality(Holders(h)) <= 1

\* A guard holds the non-recursive mutex while the guard of another task,
\* and a second guard of the same task, over that mutex are constructed and
\* do not hold it.
C15_Witness ==
    \E g1, g2, g3 \in Guards :
        /\ Holders("testMutex") = {g1}
        /\ mutex["testMutex"].owner = GuardCtx(g1)
        /\ g2 # g1 /\ GuardCtx(g2) = GuardCtx(g1)
        /\ GuardCtx(g3) # GuardCtx(g1)
        /\ \A g \in {g2, g3} :
              /\ guard[g].life = "live"
              /\ guard[g].m_handle = "testMutex"
              /\ ~hasLock(guard[g])

\* C16: a guard of either class whose handle is null does not have its held
\* flag set, and from one state of a constructed guard to the next a null
\* handle stays null and the held flag stays false.
C16_NullHandle ==
    [][ \A g \in Guards :
          /\ guard'[g].m_handle = Null => ~hasLock(guard'[g])
          /\ (/\ guard[g].life = "live"
              /\ guard'[g].life = "live"
              /\ guard[g].m_handle = Null)
             => (guard'[g].m_handle = Null /\ ~hasLock(guard'[g])) ]_vars

\* unlock() has been called on a constructed guard with a null handle: the
\* guard is as it was, without handle and without lock, while another guard
\* holds its mutex.
C16_Witness ==
    /\ last.op = "unlock"
    /\ guard[last.g].life = "live"
    /\ guard[last.g].m_handle = Null
    /\ ~hasLock(guard[last.g])
    /\ ~last.gave
    /\ \E g \in Guards : g # last.g /\ hasLock(guard[g])

\* C17: a guard enters the take only from its constructor, so once in its
\* life; its held flag goes from false to true only at the return of that
\* take; on a constructed guard the flag never goes from false to true, and
\* goes from true to false only in the guard's own unlock(); the guard goes
\* away only in its destructor.
C17_Lifecycle ==
    [][ \A g \in Guards :
          /\ (guard'[g].life = "taking" /\ guard[g].life # "taking")
             => (guard[g].life = "none" /\ last'.op = "ctor" /\ last'.g = g)
          /\ (hasLock(guard'[g]) /\ ~hasLock(guard[g]))
             => (guard[g].life = "taking" /\ last'.op = "take" /\ last'.g = g)
          /\ (guard[g].life = "live" /\ guard'[g].life = "live")
             => /\ ~hasLock(guard[g]) => ~hasLock(guard'[g])
                /\ (hasLock(guard[g]) /\ ~hasLock(guard'[g]))
                   => (last'.op = "unlock" /\ last'.g = g /\ last'.gave)
          /\ (guard[g].life = "live" /\ guard'[g].life # "live")
             => (guard'[g].life = "none" /\ last'.op = "dtor" /\ last'.g = g) ]_vars

\* The holder of a mutex has just released it, and a guard of another task
\* whose constructor had timed out on that mutex is still without the lock:
\* the mutex is free and the guard does not take it.
C17_Witness ==
    /\ last.op \in {"unlock", "dtor"}
    /\ last.gave
    /\ last.h = "testMutex"
    /\ mutex["testMutex"] = FreeMutex
    /\ \E g \in Guards :
          /\ GuardCtx(g) # GuardCtx(last.g)
          /\ guard[g].life = "live"
          /\ guard[g].m_handle = "testMutex"
          /\ ~hasLock(guard[g])
          /\ \A g2 \in Guards : GuardCtx(g2) = GuardCtx(g) => ~hasLock(guard[g2])

\* ------------------------------------------------------------------ SpecNested
\* test_mutex_guard_nested_scope: MutexGuards over testMutex and over
\* innerMutex, constructed, unlocked and destroyed in any nesting by the tasks.
ConstructNested ==
    \E g \in Guards, h \in PlainHandles, timeout \in 0..MaxTimeout :
        /\ ConstructStep(g, "MutexGuard", h, timeout, FALSE)
        /\ UNCHANGED <<taskVars, accessVars>>

UnlockNested ==
    \E g \in Guards : UnlockStep(g, FALSE) /\ UNCHANGED <<taskVars, accessVars>>

DestroyNested ==
    \E g \in Guards : DestroyStep(g, FALSE) /\ UNCHANGED <<taskVars, accessVars>>

NextNested == ConstructNested \/ TakeReturn \/ UnlockNested \/ DestroyNested \/ Tick

SpecNested == Init /\ [][NextNested]_vars

\* C18: constructing a guard over mutex B, the return of its take, its
\* unlock() and its destruction leave every other mutex as it was, and leave
\* the held flag and the handle of every guard over another mutex as they
\* were.
C18_Independence ==
    [][ last'.op \in {"ctor", "take", "unlock", "dtor"}
        => /\ \A A \in Handles \ {last'.h} : mutex'[A] = mutex[A]
           /\ \A g \in Guards :
                 (g # last'.g /\ guard[g].m_handle # last'.h)
                 => /\ hasLock(guard'[g]) = hasLock(guard[g])
                    /\ guard'[g].m_handle = guard[g].m_handle
                    /\ guard'[g].life = guard[g].life ]_vars

\* The inner guard of a task, over innerMutex, has been destroyed after
\* holding it; the outer guard of the same task still holds testMutex.
C18_Witness ==
    /\ last.op = "dtor"
    /\ last.gave
    /\ last.h = "innerMutex"
    /\ mutex["innerMutex"] = FreeMutex
    /\ \E g \in Holders("testMutex") :
          /\ g # last.g
          /\ GuardCtx(g) = GuardCtx(last.g)
          /\ mutex["testMutex"] = [owner |-> GuardCtx(g), count |-> 1]

\* C19: a guard calls the give only while its own take has succeeded and has
\* not been given back, and the call ends that; for every mutex the gives by
\* guards never outnumber the takes that succeeded in guards' constructors;
\* unlock() and the destructor of a guard that does not hold leave every
\* mutex, with its holder, as it was.
C19_ReleaseBookkeeping ==
    [][ /\ \A h \in Handles : balance'[h] >= 0
        /\ last'.op \in {"unlock", "dtor"}
           => /\ last'.gave
                 => (/\ hasLock(guard[last'.g])
                     /\ ~hasLock(guard'[last'.g])
                     /\ balance'[last'.h] = balance[last'.h] - 1)
              /\ ~hasLock(guard[last'.g])
                 => (~last'.gave /\ mutex' = mutex /\ balance' = balance) ]_vars

\* A guard whose constructor timed out has been unlocked or destroyed while a
\* guard of another task holds the mutex: the holder still owns it.
C19_Witness ==
    /\ last.op \in {"unlock", "dtor"}
    /\ ~last.gave
    /\ ~last.isr
    /\ last.h \in Handles
    /\ balance[last.h] = 1
    /\ \E g \in Holders(last.h) :
          /\ GuardCtx(g) # GuardCtx(last.g)
          /\ mutex[last.h].owner = GuardCtx(g)

\* C20: when the take of a MutexGuard returns while a guard of the same task
\* holds the same non-recursive mutex, the timeout has run out and the new
\* guard does not hold; the mutex stays owned by the task and every other
\* guard is untouched; unlock() and the destructor of the guard that failed
\* release nothing and leave the outer guard holding.
C20_SameContextRelock ==
    [][ /\ (/\ last'.op = "take"
            /\ guard[last'.g].cls = "MutexGuard"
            /\ mutex[last'.h].owner = GuardCtx(last'.g))
           => (/\ guard[last'.g].ticks = 0
               /\ ~hasLock(guard'[last'.g])
               /\ mutex' = mutex
               /\ \A g \in Guards \ {last'.g} : guard'[g] = guard[g])
        /\ (/\ last'.op \in {"unlock", "dtor"}
            /\ guard[last'.g].cls = "MutexGuard"
            /\ ~hasLock(guard[last'.g])
            /\ \E g \in Holders(last'.h) : GuardCtx(g) = GuardCtx(last'.g))
           => (/\ ~last'.gave
               /\ mutex' = mutex
               /\ \A g \in Guards \ {last'.g} : guard'[g] = guard[g]) ]_vars

\* The constructor of a task's second guard over testMutex has returned
\* without the lock while the task's first guard holds testMutex.
C20_Witness ==
    /\ last.op = "take"
    /\ last.h = "testMutex"
    /\ guard[last.g].life = "live"
    /\ ~hasLock(guard[last.g])
    /\ \E g \in Holders("testMutex") :
          /\ g # last.g
          /\ GuardCtx(g) = GuardCtx(last.g)
          /\ mutex["testMutex"] = [owner |-> GuardCtx(g), count |-> 1]

\* C21: the hold count of a recursive mutex equals the number of
\* RecursiveMutexGuards over it whose held flag is true, every one of those
\* guards belongs to the task that owns the mutex, and with no such guard the
\* mutex has no owner.
C21_RecursiveHoldCount ==
    \A h \in RecursiveHandles :
        /\ mutex[h].count = Cardinality(Holders(h))
        /\ \A g \in Holders(h) :
              /\ guard[g].cls = "RecursiveMutexGuard"
              /\ mutex[h].owner = GuardCtx(g)
        /\ Holders(h) = {} => mutex[h].owner = None

\* Of two nested guards of a task, one has been unlocked explicitly while the
\* other still holds: one guard holds and the count is one.
C21_Witness ==
    /\ last.op = "unlock"
    /\ last.gave
    /\ guard[last.g].life = "live"
    /\ guard[last.g].m_handle = "recursiveMutex"
    /\ ~hasLock(guard[last.g])
    /\ Cardinality(Holders("recursiveMutex")) = 1
    /\ mutex["recursiveMutex"].count = 1
    /\ \A g \in Holders("recursiveMutex") : GuardCtx(g) = GuardCtx(last.g)

====
